---- MODULE Spec2Model ----
(***************************************************************************)
(* A model of Wav2Letter (src/net.py): the checkpoint/resume discipline of *)
(* train, the loss network, the default ASG transition probabilities, the  *)
(* layer sequence built by create_predictive_net and batch assembly.       *)
(***************************************************************************)
EXTENDS Integers, Sequences, FiniteSets, TLC

(* ------------------------------ bounds -------------------------------- *)

\* Processes (constructions of Wav2Letter) started one after the other on
\* the same checkpoint directory.
MaxRuns == 3

\* Highest epoch number a run trains (fit_generator's nb_epoch is 100000000).
MaxEpoch == 2

\* Batches the generator yields per epoch (samples_per_epoch / batch size).
StepsPerEpoch == 2

\* Highest cadence given to create_callbacks (callback_step, save_step).
MaxCadence == 2

\* Epoch numbers whose file names are compared with each other.
MaxNamedEpoch == 12

\* Spectrograms in a batch.
MaxBatch == 2

\* Spectrograms are up to MaxMultiple strides long (see Lengths).
MaxMultiple == 1

\* Highest frozen_layer_count.
MaxFrozen == 1

\* input_size_per_time_step of the nets built.
InputSize == 2

\* grapheme_set_size of the encoding of the nets built.
GraphemeSetSize == 3

\* Highest grapheme_set_size of the default ASG probabilities.
MaxGraphemes == 3

\* Highest integer among those drawn for the ASG probabilities.
MaxDraw == 5

\* Optimizer steps of one run of the generator.
MaxFitSteps == 2

\* Examples handed to a split.
MaxExamples == 3

(* ----------------------------- variables ------------------------------ *)

VARIABLES
    pc,             \* position of the process: "idle" (none running),
                    \* "constructed", "training", "failed"
    error,          \* the exception that ended the process, or "none"
    runs,           \* processes started so far
    files,          \* net_directory: file name |-> weight snapshot
    load_epoch,     \* self.load_epoch (NoEpoch or an epoch number)
    load_dir,       \* load_model_from_directory (None or "dir")
    use_asg,        \* self.use_asg
    weights,        \* weights of self.predictive_net
    callback_step,  \* cadence of the report callback
    save_step,      \* cadence of save_weights
    epoch,          \* epoch counter of fit_generator
    batch_index,    \* batches trained within the current epoch
    loss_kind,      \* the loss last computed: "none", "ctc" or "asg"
    report,         \* predictions last printed by print_expectations_vs_prediction
    \* history variables of the current run
    steps_run,      \* optimizer updates applied by this run
    first_epoch,    \* epoch number of this run's first training step, or NoEpoch
    loaded_name,    \* file loaded by the constructor, or None
    load_missing,   \* the constructor asked for a file that did not exist
    written,        \* file names this run has saved
    clobbered,      \* a save of this run hit a name it loaded or had saved
    last_end,       \* [epoch, weights] at the latest on_epoch_end, or NoEnd
    loss_requested, \* this run has asked for loss_net (loss or train)
    events,         \* this run's reports, training steps and saves, in order
    \* the predictive net and batch assembly
    net_cfg,        \* use_raw_wave_input, dropout, frozen_layer_count
    layers,         \* self.predictive_net.layers
    ratio_cache,    \* the lazy input_to_prediction_length_ratio; 0: not yet computed
    spectrograms,   \* the list last handed to _input_batch_and_prediction_lengths
    input_batch,    \* its first result
    prediction_lengths, \* its second result
    previous,       \* both results of the call before, on the same list
    \* the default ASG transition probabilities
    asg_size,       \* grapheme_set_size
    asg_draw,       \* what numpy.random.randint returned
    asg_transition, \* the matrix _default_asg_transition_probabilities returns
    \* the generator, the optimizer and the forward passes
    labels,         \* the labels of the labeled batch, one per spectrogram
    prediction_phase_flag, \* self.prediction_phase_flag
    dictionary,     \* the training input dictionary _generator yielded last
    consumer,       \* who runs the generator: "none", "fit" or "evaluate"
    layer_updates,  \* per layer, the optimizer updates its parameters took
    fit_steps,      \* optimizer steps taken
    passes,         \* the forward passes run: [call, learning_phase]
    \* the split of a corpus into training and test examples
    examples,       \* the list of examples handed to the split
    test_directory_name, \* the argument of by_directory
    split_result    \* what the split returned, or NoSplit

trainVars == <<pc, error, runs, files, load_epoch, load_dir, use_asg, weights,
               callback_step, save_step, epoch, batch_index, loss_kind, report,
               steps_run, first_epoch, loaded_name, load_missing, written,
               clobbered, last_end, loss_requested, events>>

netVars == <<net_cfg, layers, ratio_cache, spectrograms, input_batch,
             prediction_lengths, previous>>

asgVars == <<asg_size, asg_draw, asg_transition>>

fitVars == <<labels, prediction_phase_flag, dictionary, consumer,
             layer_updates, fit_steps, passes>>

splitVars == <<examples, test_directory_name, split_result>>

vars == <<trainVars, netVars, asgVars, fitVars, splitVars>>

\* Python's None, where a string (a file name, a directory) is expected.
None == "None"

\* Python's None, where an epoch number is expected.
NoEpoch == -1

(* --------------------------- file names ------------------------------- *)

DigitChar(d) ==
    CASE d = 0 -> "0" [] d = 1 -> "1" [] d = 2 -> "2" [] d = 3 -> "3"
      [] d = 4 -> "4" [] d = 5 -> "5" [] d = 6 -> "6" [] d = 7 -> "7"
      [] d = 8 -> "8" [] d = 9 -> "9"

RECURSIVE Decimal(_)
Decimal(n) ==
    IF n < 10 THEN DigitChar(n) ELSE Decimal(n \div 10) \o DigitChar(n % 10)

\* "{}".format(x) for an epoch number or None.
Format(x) == IF x = NoEpoch THEN "None" ELSE Decimal(x)

\* Wav2Letter.model_file_name
model_file_name(e) == "weights-epoch" \o Format(e) \o ".h5"

(* ------------------------------ weights ------------------------------- *)

\* The weights of the predictive net, by how they came about: the number of
\* optimizer updates applied since random initialisation, and whether every
\* run on the way numbered its epochs from 0 or from a loaded checkpoint.
RandomWeights(le) == [steps |-> 0, aligned |-> (le = NoEpoch)]

\* One optimizer update of loss_net, which shares predictive_net's weights.
train_on_batch(w) == [w EXCEPT !.steps = @ + 1]

\* predict: the forward pass runs with dropout disabled, so the decoded text
\* is a function of the weights alone.
predict(w) == <<"decoded", w.steps>>

\* save_weights: the file `name` holds a snapshot of w, whether or not it
\* existed.
save_weights(fs, name, w) ==
    [n \in (DOMAIN fs) \cup {name} |-> IF n = name THEN w ELSE fs[n]]

EmptyDirectory == [n \in {} |-> RandomWeights(NoEpoch)]

\* No on_epoch_end has run yet.
NoEnd == [epoch |-> NoEpoch, weights |-> RandomWeights(NoEpoch)]

Exists(fs, name) == name \in DOMAIN fs

initial_epoch_zero(le) == 0

\* The initial_epoch train hands to fit_generator.
initial_epoch(le) == IF le # NoEpoch THEN le ELSE 0

(* ----------------------------- loss net ------------------------------- *)

loss_lambda_ctc(asg) == "ctc"

\* The Lambda layer's function.
loss_lambda(asg) == IF asg THEN "asg" ELSE "ctc"

\* Building loss_net calls the Lambda's function on the symbolic inputs;
\* _asg_lambda raises.  The property is lazy and caches only a value, so
\* every access of a net with use_asg raises again.
loss_net(asg) ==
    IF loss_lambda(asg) = "asg"
    THEN [ok |-> FALSE, error |-> "NotImplementedError", loss |-> "none"]
    ELSE [ok |-> TRUE, error |-> "none", loss |-> "ctc"]

(* ------------------------------ actions ------------------------------- *)

\* What the run did: a report, a training step or a save, in epoch e with
\* b batches of the epoch trained; NoEpoch: before fit_generator.
Event(kind, e, b) == [kind |-> kind, epoch |-> e, batch |-> b]

EpochOrNone == {NoEpoch} \cup (0 .. MaxEpoch)

\* No process: nothing but the checkpoint directory and the count of runs.
NoProcess ==
    /\ pc = "idle"
    /\ error = "none"
    /\ load_epoch = NoEpoch
    /\ load_dir = None
    /\ use_asg = FALSE
    /\ weights = RandomWeights(NoEpoch)
    /\ callback_step = 1
    /\ save_step = 1
    /\ epoch = 0
    /\ batch_index = 0
    /\ loss_kind = "none"
    /\ report = << >>
    /\ steps_run = 0
    /\ first_epoch = NoEpoch
    /\ loaded_name = None
    /\ load_missing = FALSE
    /\ written = {}
    /\ clobbered = FALSE
    /\ last_end = NoEnd
    /\ loss_requested = FALSE
    /\ events = << >>

TrainInit ==
    /\ NoProcess
    /\ runs = 0
    /\ files = EmptyDirectory

\* The constructor's last statement: nothing is loaded without a directory,
\* and load_weights raises when the file is missing.
load_weights(fs, dir, le) ==
    IF dir = None
    THEN [ok |-> TRUE, weights |-> RandomWeights(le), name |-> None]
    ELSE IF Exists(fs, model_file_name(le))
         THEN [ok |-> TRUE, weights |-> fs[model_file_name(le)],
               name |-> model_file_name(le)]
         ELSE [ok |-> FALSE, weights |-> RandomWeights(le), name |-> None]

\* Wav2Letter.__init__
Construct(le, dir, asg) ==
    /\ pc = "idle"
    /\ runs < MaxRuns
    /\ runs' = runs + 1
    /\ load_epoch' = le
    /\ load_dir' = dir
    /\ use_asg' = asg
    /\ LET r == load_weights(files, dir, le) IN
        /\ weights' = r.weights
        /\ loaded_name' = r.name
        /\ load_missing' = ~r.ok
        /\ pc' = IF r.ok THEN "constructed" ELSE "failed"
        /\ error' = IF r.ok THEN "none" ELSE "IOError"
    /\ UNCHANGED <<files, callback_step, save_step, epoch, batch_index,
                   loss_kind, report, steps_run, first_epoch, written,
                   clobbered, last_end, loss_requested, events>>
    /\ UNCHANGED <<netVars, asgVars, fitVars, splitVars>>

\* Wav2Letter.loss: builds loss_net, then evaluates the batches.
Loss ==
    /\ pc = "constructed"
    /\ loss_requested' = TRUE
    /\ LET net == loss_net(use_asg) IN
        /\ pc' = IF net.ok THEN pc ELSE "failed"
        /\ error' = net.error
        /\ loss_kind' = net.loss
    /\ UNCHANGED <<runs, files, load_epoch, load_dir, use_asg, weights,
                   callback_step, save_step, epoch, batch_index, report,
                   steps_run, first_epoch, loaded_name, load_missing, written,
                   clobbered, last_end, events>>
    /\ UNCHANGED <<netVars, asgVars, fitVars, splitVars>>

\* Wav2Letter.train up to the first batch: the report, then loss_net, then
\* create_callbacks(callback_step = cs, save_step = ss) and the epoch counter.
\* train itself passes neither cadence, so both are 1 there.
Train(cs, ss) ==
    /\ pc = "constructed"
    /\ report' = predict(weights)
    /\ events' = events \o <<Event("report", NoEpoch, 0)>>
    /\ loss_requested' = TRUE
    /\ LET net == loss_net(use_asg) IN
        /\ pc' = IF net.ok THEN "training" ELSE "failed"
        /\ error' = net.error
        /\ callback_step' = IF net.ok THEN cs ELSE callback_step
        /\ save_step' = IF net.ok THEN ss ELSE save_step
        /\ epoch' = IF net.ok THEN initial_epoch(load_epoch) ELSE epoch
    /\ UNCHANGED <<runs, files, load_epoch, load_dir, use_asg, weights,
                   batch_index, loss_kind, steps_run, first_epoch, loaded_name,
                   load_missing, written, clobbered, last_end>>
    /\ UNCHANGED <<netVars, asgVars, fitVars, splitVars>>

\* One batch of fit_generator: the loss and one optimizer update.
TrainStep ==
    /\ pc = "training"
    /\ epoch <= MaxEpoch
    /\ batch_index < StepsPerEpoch
    /\ weights' = train_on_batch(weights)
    /\ loss_kind' = loss_net(use_asg).loss
    /\ batch_index' = batch_index + 1
    /\ steps_run' = steps_run + 1
    /\ first_epoch' = IF first_epoch = NoEpoch THEN epoch ELSE first_epoch
    /\ events' = events \o <<Event("step", epoch, batch_index + 1)>>
    /\ UNCHANGED <<pc, error, runs, files, load_epoch, load_dir, use_asg,
                   callback_step, save_step, epoch, report, loaded_name,
                   load_missing, written, clobbered, last_end, loss_requested>>
    /\ UNCHANGED <<netVars, asgVars, fitVars, splitVars>>

SaveDue_late(e, ss) == e % ss = 0 /\ e > 1

\* CustomCallback.on_epoch_end: the condition of the save.
SaveDue(e, ss) == e % ss = 0 /\ e > 0

\* CustomCallback.on_epoch_end: the condition of the report.
CallbackDue(e, cs) == e % cs = 0

on_epoch_end_save_first(e, b, cs, ss) ==
    (IF SaveDue(e, ss) THEN <<Event("save", e, b)>> ELSE << >>)
    \o (IF CallbackDue(e, cs) THEN <<Event("report", e, b)>> ELSE << >>)

\* CustomCallback.on_epoch_end: the callback when due, then the save when
\* due.
on_epoch_end(e, b, cs, ss) ==
    (IF CallbackDue(e, cs) THEN <<Event("report", e, b)>> ELSE << >>)
    \o (IF SaveDue(e, ss) THEN <<Event("save", e, b)>> ELSE << >>)

\* CustomCallback.on_epoch_end, and the epoch counter's increment.
EpochEnd ==
    /\ pc = "training"
    /\ epoch <= MaxEpoch
    /\ batch_index = StepsPerEpoch
    /\ report' = IF CallbackDue(epoch, callback_step)
                 THEN predict(weights) ELSE report
    /\ IF SaveDue(epoch, save_step)
       THEN /\ files' = save_weights(files, model_file_name(epoch), weights)
            /\ written' = written \cup {model_file_name(epoch)}
            /\ clobbered' = (clobbered
                             \/ model_file_name(epoch) \in written
                             \/ model_file_name(epoch) = loaded_name)
       ELSE UNCHANGED <<files, written, clobbered>>
    /\ last_end' = [epoch |-> epoch, weights |-> weights]
    /\ events' = events \o on_epoch_end(epoch, batch_index, callback_step,
                                         save_step)
    /\ epoch' = epoch + 1
    /\ batch_index' = 0
    /\ UNCHANGED <<pc, error, runs, load_epoch, load_dir, use_asg, weights,
                   callback_step, save_step, loss_kind, steps_run, first_epoch,
                   loaded_name, load_missing, loss_requested>>
    /\ UNCHANGED <<netVars, asgVars, fitVars, splitVars>>

\* The process ends (an uncaught exception, or termination from outside);
\* the checkpoint directory stays.
Exit ==
    /\ pc # "idle"
    /\ pc' = "idle"
    /\ error' = "none"
    /\ load_epoch' = NoEpoch
    /\ load_dir' = None
    /\ use_asg' = FALSE
    /\ weights' = RandomWeights(NoEpoch)
    /\ callback_step' = 1
    /\ save_step' = 1
    /\ epoch' = 0
    /\ batch_index' = 0
    /\ loss_kind' = "none"
    /\ report' = << >>
    /\ steps_run' = 0
    /\ first_epoch' = NoEpoch
    /\ loaded_name' = None
    /\ load_missing' = FALSE
    /\ written' = {}
    /\ clobbered' = FALSE
    /\ last_end' = NoEnd
    /\ loss_requested' = FALSE
    /\ events' = << >>
    /\ UNCHANGED <<runs, files>>
    /\ UNCHANGED <<netVars, asgVars, fitVars, splitVars>>

(* -------------------------- the predictive net ------------------------- *)

convolution_valid(dropout, name, filter_count, filter_length, striding, activation, input_dim, never_dropout) ==
    (IF dropout = None \/ never_dropout THEN << >>
     ELSE << [kind |-> "Dropout", p |-> dropout, input_dim |-> input_dim,
              name |-> "dropout_before_" \o name, trainable |-> TRUE] >>)
    \o << [kind |-> "Convolution1D", nb_filter |-> filter_count,
           filter_length |-> filter_length, subsample_length |-> striding,
           activation |-> activation, name |-> name, input_dim |-> input_dim,
           border_mode |-> "valid", trainable |-> TRUE] >>

\* create_predictive_net's convolution: the layers of one convolution, a
\* Dropout before it when a rate is configured and never_dropout is not set.
\* input_dim 0 stands for None.
convolution(dropout, name, filter_count, filter_length, striding, activation, input_dim, never_dropout) ==
    (IF dropout = None \/ never_dropout THEN << >>
     ELSE << [kind |-> "Dropout", p |-> dropout, input_dim |-> input_dim,
              name |-> "dropout_before_" \o name, trainable |-> TRUE] >>)
    \o << [kind |-> "Convolution1D", nb_filter |-> filter_count,
           filter_length |-> filter_length, subsample_length |-> striding,
           activation |-> activation, name |-> name, input_dim |-> input_dim,
           border_mode |-> "same", trainable |-> TRUE] >>

main_filter_count == 250

out_filter_count == 2000

input_convolutions(cfg) ==
    (IF cfg.use_raw_wave_input
     THEN convolution(cfg.dropout, "wave_conv", main_filter_count, 250, 160,
                      cfg.activation, cfg.input_size_per_time_step, FALSE)
     ELSE << >>)
    \o convolution(cfg.dropout, "striding_conv", main_filter_count, 48, 2,
                   cfg.activation,
                   IF cfg.use_raw_wave_input THEN 0
                   ELSE cfg.input_size_per_time_step,
                   FALSE)

RECURSIVE inner_convolutions_from(_, _)
inner_convolutions_from(cfg, i) ==
    IF i > 7 THEN << >>
    ELSE convolution(cfg.dropout, "inner_conv_" \o Decimal(i),
                     main_filter_count, 7, 1, cfg.activation, 0, FALSE)
         \o inner_convolutions_from(cfg, i + 1)

inner_convolutions(cfg) == inner_convolutions_from(cfg, 1)

output_convolutions_with_dropout(cfg) ==
    convolution(cfg.dropout, "big_conv_1", out_filter_count, 32, 1,
                cfg.activation, 0, FALSE)
    \o convolution(cfg.dropout, "big_conv_2", out_filter_count, 1, 1,
                   cfg.activation, 0, TRUE)
    \o convolution(cfg.dropout, "output_conv", cfg.grapheme_set_size, 1, 1,
                   cfg.output_activation, 0, TRUE)

\* create_predictive_net's output_convolutions
output_convolutions(cfg) ==
    convolution(cfg.dropout, "big_conv_1", out_filter_count, 32, 1,
                cfg.activation, 0, TRUE)
    \o convolution(cfg.dropout, "big_conv_2", out_filter_count, 1, 1,
                   cfg.activation, 0, TRUE)
    \o convolution(cfg.dropout, "output_conv", cfg.grapheme_set_size, 1, 1,
                   cfg.output_activation, 0, TRUE)

\* for layer in layers[:frozen_layer_count]: layer.trainable = False
Freeze(ls, count) ==
    [i \in 1 .. Len(ls) |->
        IF i <= count THEN [ls[i] EXCEPT !.trainable = FALSE] ELSE ls[i]]

\* Wav2Letter.create_predictive_net
create_predictive_net(cfg) ==
    Freeze(input_convolutions(cfg) \o inner_convolutions(cfg)
               \o output_convolutions(cfg),
           cfg.frozen_layer_count)

RECURSIVE reduce_sum(_, _)
reduce_sum(xs, acc) ==
    IF xs = << >> THEN acc ELSE reduce_sum(Tail(xs), acc + Head(xs))

\* reduce(lambda x, y: x * y, xs, acc)
RECURSIVE reduce_product(_, _)
reduce_product(xs, acc) ==
    IF xs = << >> THEN acc ELSE reduce_product(Tail(xs), acc * Head(xs))

\* [layer.subsample_length for layer in layers if isinstance(layer, Convolution1D)]
RECURSIVE conv_strides(_)
conv_strides(ls) ==
    IF ls = << >> THEN << >>
    ELSE (IF Head(ls).kind = "Convolution1D"
          THEN << Head(ls).subsample_length >> ELSE << >>)
         \o conv_strides(Tail(ls))

input_to_prediction_length_ratio_sum(ls) == reduce_sum(conv_strides(ls), 1)

\* Wav2Letter.input_to_prediction_length_ratio, when it is computed.
input_to_prediction_length_ratio(ls) == reduce_product(conv_strides(ls), 1)

\* The lazy property: the cached value when there is one.
lazy_ratio(cache, ls) ==
    IF cache # 0 THEN cache ELSE input_to_prediction_length_ratio(ls)

\* The length of a Convolution1D's output (Keras' conv_output_length).
conv_output_length(input_length, filter_size, border_mode, stride) ==
    LET output_length == IF border_mode = "same" THEN input_length
                         ELSE input_length - filter_size + 1
    IN (output_length + stride - 1) \div stride

\* The time dimension of the net's output on an input of length n.
RECURSIVE output_length(_, _)
output_length(ls, n) ==
    IF ls = << >> THEN n
    ELSE output_length(Tail(ls),
            IF Head(ls).kind = "Convolution1D"
            THEN conv_output_length(n, Head(ls).filter_length,
                                    Head(ls).border_mode,
                                    Head(ls).subsample_length)
            ELSE n)

(* --------------------------- batch assembly ---------------------------- *)

\* A spectrogram: a numpy array of shape (length, width) without zeros.
Spectrogram(length, width, tone) ==
    [shape |-> << length, width >>,
     data |-> [t \in 1 .. length |->
                 [k \in 1 .. width |-> 1 + ((t + k + tone) % 2)]]]

RECURSIVE Max(_)
Max(xs) ==
    IF Len(xs) = 1 THEN xs[1]
    ELSE LET m == Max(Tail(xs)) IN IF xs[1] >= m THEN xs[1] ELSE m

prediction_lengths_unscaled(input_lengths, ratio) == input_lengths

\* [s // self.input_to_prediction_length_ratio for s in input_lengths]
prediction_lengths_of(input_lengths, ratio) ==
    [i \in 1 .. Len(input_lengths) |-> input_lengths[i] \div ratio]

\* Wav2Letter._input_batch_and_prediction_lengths
input_batch_and_prediction_lengths(specs, ratio) ==
    LET batch_size == Len(specs)
        input_size_per_time_step == specs[1].shape[2]
        input_lengths == [i \in 1 .. batch_size |-> specs[i].shape[1]]
        lengths == prediction_lengths_of(input_lengths, ratio)
        zeros == [i \in 1 .. batch_size |->
                    [t \in 1 .. Max(input_lengths) |->
                        [k \in 1 .. input_size_per_time_step |-> 0]]]
        filled == [i \in 1 .. batch_size |->
                    [t \in 1 .. Max(input_lengths) |->
                        [k \in 1 .. input_size_per_time_step |->
                            IF t <= specs[i].shape[1] /\ k <= specs[i].shape[2]
                            THEN specs[i].data[t][k] ELSE zeros[i][t][k]]]]
    IN [input_batch |-> filled, prediction_lengths |-> lengths]

NoResult == [input_batch |-> << >>, prediction_lengths |-> << >>]

\* The lengths of the spectrograms: none at all, and MaxMultiple times the
\* strides of the nets (2, and 160 * 2 with raw wave input), each also with
\* one time step more.
Lengths ==
    {q * u + r : q \in {0, MaxMultiple}, u \in {2, 320}, r \in {0, 1}}

\* The lists of spectrograms of a batch; the tone tells the rows apart.
Batches ==
    UNION {{[i \in 1 .. size |-> Spectrogram(ns[i], InputSize, i)] :
               ns \in [1 .. size -> Lengths]} : size \in 1 .. MaxBatch}

NetConfigs ==
    [use_raw_wave_input : BOOLEAN,
     dropout : {None, "0.05"},
     frozen_layer_count : 0 .. MaxFrozen,
     input_size_per_time_step : {InputSize},
     grapheme_set_size : {GraphemeSetSize},
     activation : {"relu"},
     output_activation : {"softmax"}]

\* No net: the values of the net's variables while another part is checked.
NetIdle ==
    /\ net_cfg = [use_raw_wave_input |-> FALSE, dropout |-> None,
                  frozen_layer_count |-> 0,
                  input_size_per_time_step |-> InputSize,
                  grapheme_set_size |-> GraphemeSetSize,
                  activation |-> "relu", output_activation |-> "softmax"]
    /\ layers = << >>
    /\ ratio_cache = 0
    /\ spectrograms = << >>
    /\ input_batch = << >>
    /\ prediction_lengths = << >>
    /\ previous = NoResult

\* After Wav2Letter.__init__: the net is built, nothing else has run; the
\* caller holds a list of spectrograms.
NetInit ==
    /\ net_cfg \in NetConfigs
    /\ layers = create_predictive_net(net_cfg)
    /\ ratio_cache = 0
    /\ spectrograms \in Batches
    /\ input_batch = << >>
    /\ prediction_lengths = << >>
    /\ previous = NoResult

\* The first call of _input_batch_and_prediction_lengths, on the list.
Assemble ==
    /\ input_batch = << >>
    /\ ratio_cache' = lazy_ratio(ratio_cache, layers)
    /\ LET r == input_batch_and_prediction_lengths(spectrograms, ratio_cache')
       IN
        /\ input_batch' = r.input_batch
        /\ prediction_lengths' = r.prediction_lengths
    /\ UNCHANGED <<net_cfg, layers, spectrograms, previous>>
    /\ UNCHANGED <<trainVars, asgVars, fitVars, splitVars>>

\* _input_batch_and_prediction_lengths once more on the same list.
AssembleAgain ==
    /\ input_batch # << >>
    /\ ratio_cache' = lazy_ratio(ratio_cache, layers)
    /\ LET r == input_batch_and_prediction_lengths(spectrograms, ratio_cache')
       IN
        /\ input_batch' = r.input_batch
        /\ prediction_lengths' = r.prediction_lengths
    /\ previous' = [input_batch |-> input_batch,
                    prediction_lengths |-> prediction_lengths]
    /\ UNCHANGED <<net_cfg, layers, spectrograms>>
    /\ UNCHANGED <<trainVars, asgVars, fitVars, splitVars>>

(* ----------------- default ASG transition probabilities --------------- *)

\* numpy's float64: a positive number is m * 2 ^ (e - Precision + 1), its
\* mantissa m a sequence of Precision bits, the first of them 1.
Precision == 53

FloatZero == [e |-> 0, m |-> << >>]

Bits(k, bit) == [i \in 1 .. k |-> bit]

FloatOne == [e |-> 0, m |-> <<1>> \o Bits(Precision - 1, 0)]

\* m + 1, for a mantissa that is not all ones.
AddOne(m) ==
    [i \in 1 .. Len(m) |->
        IF \A k \in i + 1 .. Len(m) : m[k] = 1 THEN 1 - m[i] ELSE m[i]]

\* Round to nearest, ties to even: m is followed by round_bit and, when
\* sticky, by further bits that are not all 0.
RoundNearestEven(e, m, round_bit, sticky) ==
    IF round_bit = 1 /\ (sticky \/ m[Precision] = 1)
    THEN IF m = Bits(Precision, 1)
         THEN [e |-> e + 1, m |-> <<1>> \o Bits(Precision - 1, 0)]
         ELSE [e |-> e, m |-> AddOne(m)]
    ELSE [e |-> e, m |-> m]

\* a and b scaled by powers of 2 until b <= a < 2 * b.
RECURSIVE Normalize(_, _, _)
Normalize(a, b, e) ==
    IF a >= 2 * b THEN Normalize(a, 2 * b, e + 1)
    ELSE IF a < b THEN Normalize(2 * a, b, e - 1)
    ELSE [a |-> a, b |-> b, e |-> e]

\* 2 ^ k modulo b.
RECURSIVE PowerOfTwoModulo(_, _)
PowerOfTwoModulo(k, b) ==
    IF k = 0 THEN 1 % b
    ELSE LET half == PowerOfTwoModulo(k \div 2, b)
         IN (half * half * (IF k % 2 = 1 THEN 2 ELSE 1)) % b

\* What remains of r / b, for r < b, after k bits of the quotient.
Remainder(r, b, k) == (r * PowerOfTwoModulo(k, b)) % b

\* The first k bits of r / b after the point, for r < b, and what remains.
QuotientBits(r, b, k) ==
    [bits |-> [i \in 1 .. k |-> (2 * Remainder(r, b, i - 1)) \div b],
     rem |-> Remainder(r, b, k)]

\* a / b in numpy, for integers a >= 0 and b > 0: the float64 nearest to
\* the quotient.
TrueDivide(a, b) ==
    IF a = 0 THEN FloatZero
    ELSE LET n == Normalize(a, b, 0)
             q == QuotientBits(n.a - n.b, n.b, Precision)
         IN RoundNearestEven(n.e, <<1>> \o SubSeq(q.bits, 1, Precision - 1),
                             q.bits[Precision], q.rem # 0)

\* The carry into position p of left + right, two bit sequences of one
\* length: some later position makes a carry that all between pass on.
CarryInto(left, right, p) ==
    \E k \in p + 1 .. Len(left) :
        /\ left[k] + right[k] = 2
        /\ \A q \in p + 1 .. k - 1 : left[q] + right[q] = 1

\* left + right for bit sequences of one length, one bit longer.
AddBits(left, right) ==
    [p \in 1 .. Len(left) + 1 |->
        IF p = 1 THEN IF CarryInto(left, right, 0) THEN 1 ELSE 0
        ELSE (left[p - 1] + right[p - 1]
                 + IF CarryInto(left, right, p - 1) THEN 1 ELSE 0) % 2]

AnySet(bits) == \E i \in 1 .. Len(bits) : bits[i] = 1

\* x + y in float64, for x, y >= 0.
FloatAdd(x, y) ==
    IF x = FloatZero THEN y
    ELSE IF y = FloatZero THEN x
    ELSE LET hi == IF x.e >= y.e THEN x ELSE y
             lo == IF x.e >= y.e THEN y ELSE x
             shift == hi.e - lo.e
             total == AddBits(hi.m \o Bits(shift, 0), Bits(shift, 0) \o lo.m)
             exact == IF total[1] = 1 THEN total ELSE Tail(total)
             exponent == IF total[1] = 1 THEN hi.e + 1 ELSE hi.e
         IN RoundNearestEven(
                exponent, SubSeq(exact, 1, Precision),
                IF Len(exact) > Precision THEN exact[Precision + 1] ELSE 0,
                AnySet(SubSeq(exact, Precision + 2, Len(exact))))

\* numpy.random.randint(1, 15, ...): the integers drawn are 1 .. 14.
RandintLow == 1

RandintHigh == 15

\* The draws looked at: the n * n cells that are kept hold a column of
\* integers of 1 .. MaxDraw, moved round by one row from each column to the
\* next; the cells of row 0 and column 0, which are overwritten, hold 1.
Draws(n) ==
    {[i \in 0 .. n |-> [j \in 0 .. n |->
         IF i = 0 \/ j = 0 THEN RandintLow ELSE c[((i + j) % n) + 1]]] :
       c \in [1 .. n -> {v \in RandintLow .. RandintHigh - 1 : v <= MaxDraw}]}

\* sum(axis=0) of an integer matrix with rows and columns 0 .. n.
RECURSIVE ColumnSum(_, _, _)
ColumnSum(matrix, j, i) ==
    IF i < 0 THEN 0 ELSE ColumnSum(matrix, j, i - 1) + matrix[i][j]

\* The division by column sums that were taken before row 0 was zeroed.
default_asg_transition_probabilities_early_norms(n, draw) ==
    LET zeroed == [i \in 0 .. n |-> [j \in 0 .. n |->
                     IF i = 0 \/ j = 0 THEN 0 ELSE draw[i][j]]]
        transition_norms == [j \in 0 .. n |->
                     IF j = 0 THEN 1 ELSE ColumnSum(draw, j, n)]
    IN [i \in 0 .. n |-> [j \in 0 .. n |->
           TrueDivide(zeroed[i][j], transition_norms[j])]]

\* Wav2Letter._default_asg_transition_probabilities, after randint.
default_asg_transition_probabilities(n, draw) ==
    LET zeroed == [i \in 0 .. n |-> [j \in 0 .. n |->
                     IF i = 0 \/ j = 0 THEN 0 ELSE draw[i][j]]]
        transition_norms == [j \in 0 .. n |->
                     IF j = 0 THEN 1 ELSE ColumnSum(zeroed, j, n)]
    IN [i \in 0 .. n |-> [j \in 0 .. n |->
           TrueDivide(zeroed[i][j], transition_norms[j])]]

AsgIdle ==
    /\ asg_size = 0
    /\ asg_draw = << >>
    /\ asg_transition = << >>

\* grapheme_set_size is known, the matrix is not yet made.
AsgInit ==
    /\ asg_size \in 1 .. MaxGraphemes
    /\ asg_draw = << >>
    /\ asg_transition = << >>

\* Wav2Letter._default_asg_transition_probabilities
DefaultTransitionProbabilities(draw) ==
    /\ asg_draw = << >>
    /\ asg_draw' = draw
    /\ asg_transition' = default_asg_transition_probabilities(asg_size, draw)
    /\ UNCHANGED asg_size
    /\ UNCHANGED <<trainVars, netVars, fitVars, splitVars>>

(* ------------------------ the training/test split ---------------------- *)

\* The directories examples lie in, as path components (a pathlib.Path).
AudioDirectories ==
    {<<"corpus", "test">>, <<"corpus", "train">>, <<"test", "dev">>}

\* The directory names a split is asked for.
TestDirectoryNames == {"test", "dev"}

\* pathlib's Path.name: the final path component.
name(path) == path[Len(path)]

\* The lists of examples: example i has id i and lies in some directory.
ExampleLists ==
    UNION {[1 .. n -> AudioDirectories] : n \in 0 .. MaxExamples}

LabeledExample(i, directory) == [id |-> i, audio_directory |-> directory]

\* No split: the result while nothing has been split.
NoSplit == [by |-> "none", training_examples |-> << >>, test_examples |-> << >>]

\* TrainingTestSplit.training_only
training_only(es) ==
    [by |-> "training_only", training_examples |-> es, test_examples |-> << >>]

\* TrainingTestSplit.test_only
test_only(es) ==
    [by |-> "test_only", training_examples |-> << >>, test_examples |-> es]

\* The split by_directory returns: two list comprehensions over the examples,
\* the first keeping those whose directory has the name, the second the rest.
by_directory(tdn, es) ==
    LET Named(example) == name(example.audio_directory) = tdn
        NotNamed(example) == name(example.audio_directory) # tdn
        training_examples == SelectSeq(es, Named)
        test_examples == SelectSeq(es, NotNamed)
    IN [by |-> "by_directory", training_examples |-> training_examples,
        test_examples |-> test_examples]

\* No corpus: the values of these variables while another part is checked.
SplitIdle ==
    /\ examples = << >>
    /\ test_directory_name = "test"
    /\ split_result = NoSplit

\* A list of examples and a directory name, nothing split yet.
SplitInit ==
    /\ \E directories \in ExampleLists :
         examples = [i \in DOMAIN directories
                         |-> LabeledExample(i, directories[i])]
    /\ test_directory_name \in TestDirectoryNames
    /\ split_result = NoSplit

\* training_test_split(examples) with TrainingTestSplit.training_only
SplitTrainingOnly ==
    /\ split_result' = training_only(examples)
    /\ UNCHANGED <<examples, test_directory_name>>
    /\ UNCHANGED <<trainVars, netVars, asgVars, fitVars>>

\* training_test_split(examples) with TrainingTestSplit.test_only
SplitTestOnly ==
    /\ split_result' = test_only(examples)
    /\ UNCHANGED <<examples, test_directory_name>>
    /\ UNCHANGED <<trainVars, netVars, asgVars, fitVars>>

\* training_test_split(examples) with
\* TrainingTestSplit.by_directory(test_directory_name)
SplitByDirectory ==
    /\ split_result' = by_directory(test_directory_name, examples)
    /\ UNCHANGED <<examples, test_directory_name>>
    /\ UNCHANGED <<trainVars, netVars, asgVars, fitVars>>

(* ----------------- the generator and the forward passes ---------------- *)

\* backend.learning_phase(): the training phase; array([True]) feeds it.
TrainingPhase == 1

\* The graphemes of the labels looked at.
Alphabet == <<"a", "b">>

\* The labeled spectrograms looked at: a label of one grapheme on the
\* shortest spectrogram that gives a prediction without raw wave input, the
\* same on one that gives a prediction with it, and a label of two on the
\* first.
LabeledExamples ==
    {[length |-> 2, label |-> <<Alphabet[1]>>],
     [length |-> 320 * MaxMultiple, label |-> <<Alphabet[1]>>],
     [length |-> 2, label |-> <<Alphabet[1], Alphabet[2]>>]}

LabeledBatches ==
    UNION {[1 .. size -> LabeledExamples] : size \in 1 .. MaxBatch}

\* The index of a grapheme in the alphabet.
GraphemeCode(g) == CHOOSE k \in 1 .. Len(Alphabet) : Alphabet[k] = g

\* grapheme_encoding.encode_label_batch: the labels as rows of grapheme
\* codes, padded to the longest.
encode_label_batch(ls) ==
    [i \in 1 .. Len(ls) |->
        [k \in 1 .. Max([j \in 1 .. Len(ls) |-> Len(ls[j])]) |->
            IF k <= Len(ls[i]) THEN GraphemeCode(ls[i][k]) ELSE 0]]

\* reshape(array(xs), (len(xs), 1))
reshape(xs) == [i \in 1 .. Len(xs) |-> <<xs[i]>>]

\* Wav2Letter._training_input_dictionary
training_input_dictionary(specs, ls, ratio) ==
    LET r == input_batch_and_prediction_lengths(specs, ratio)
        training_phase_flag_tensor == TrainingPhase
    IN [input_batch |-> r.input_batch,
        prediction_lengths |-> reshape(r.prediction_lengths),
        label_batch |-> encode_label_batch(ls),
        label_lengths |-> reshape([i \in 1 .. Len(ls) |-> Len(ls[i])]),
        keras_learning_phase |-> training_phase_flag_tensor]

\* No dictionary: _generator has yielded none that is not yet consumed.
NoDictionary ==
    [input_batch |-> << >>, prediction_lengths |-> << >>,
     label_batch |-> << >>, label_lengths |-> << >>,
     keras_learning_phase |-> 0]

prediction_batch_training(batch, flag) ==
    [call |-> "predict", learning_phase |-> TrainingPhase]

\* Wav2Letter.prediction_batch: the forward pass of the predictive net, the
\* learning phase fed with flag.
prediction_batch(batch, flag) == [call |-> "predict", learning_phase |-> flag]

\* One optimizer update: the parameters of every trainable layer that has
\* parameters change.
train_on_layers(ls, updates) ==
    [i \in 1 .. Len(ls) |->
        IF ls[i].kind = "Convolution1D" /\ ls[i].trainable
        THEN updates[i] + 1 ELSE updates[i]]

\* No generator: the values of these variables while another part is
\* checked.
FitIdle ==
    /\ labels = << >>
    /\ prediction_phase_flag = 0
    /\ dictionary = NoDictionary
    /\ consumer = "none"
    /\ layer_updates = << >>
    /\ fit_steps = 0
    /\ passes = {}

\* After Wav2Letter.__init__: the net is built, its parameters are the
\* initial or the loaded ones; the caller holds a labeled batch.
FitInit ==
    /\ net_cfg \in NetConfigs
    /\ layers = create_predictive_net(net_cfg)
    /\ ratio_cache = 0
    /\ \E batch \in LabeledBatches :
         /\ spectrograms = [i \in 1 .. Len(batch) |->
                               Spectrogram(batch[i].length, InputSize, i)]
         /\ labels = [i \in 1 .. Len(batch) |-> batch[i].label]
    /\ input_batch = << >>
    /\ prediction_lengths = << >>
    /\ previous = NoResult
    /\ prediction_phase_flag = 0
    /\ dictionary = NoDictionary
    /\ consumer = "none"
    /\ layer_updates = [i \in 1 .. Len(layers) |-> 0]
    /\ fit_steps = 0
    /\ passes = {}

\* Wav2Letter.predict on the spectrograms of the batch, as train's report
\* calls it.
Predict ==
    /\ ratio_cache' = lazy_ratio(ratio_cache, layers)
    /\ LET r == input_batch_and_prediction_lengths(spectrograms, ratio_cache')
       IN
        /\ input_batch' = r.input_batch
        /\ prediction_lengths' = r.prediction_lengths
        /\ passes' = passes \cup
               {prediction_batch(r.input_batch, prediction_phase_flag)}
    /\ UNCHANGED <<net_cfg, layers, spectrograms, previous>>
    /\ UNCHANGED <<labels, prediction_phase_flag, dictionary, consumer,
                   layer_updates, fit_steps>>
    /\ UNCHANGED <<trainVars, asgVars, splitVars>>

\* Wav2Letter._generator up to its yield, run by fit_generator (train) or by
\* evaluate_generator (loss).
Generate(who) ==
    /\ dictionary = NoDictionary
    /\ consumer = "fit" => who = "fit"
    /\ consumer' = who
    /\ ratio_cache' = lazy_ratio(ratio_cache, layers)
    /\ dictionary' = training_input_dictionary(spectrograms, labels,
                                               ratio_cache')
    /\ input_batch' = dictionary'.input_batch
    /\ prediction_lengths' =
           [i \in 1 .. Len(spectrograms) |->
               dictionary'.prediction_lengths[i][1]]
    /\ UNCHANGED <<net_cfg, layers, spectrograms, previous>>
    /\ UNCHANGED <<labels, prediction_phase_flag, layer_updates, fit_steps,
                   passes>>
    /\ UNCHANGED <<trainVars, asgVars, splitVars>>

\* fit_generator takes the yielded dictionary: the loss and one optimizer
\* update.
TrainOnBatch ==
    /\ dictionary # NoDictionary
    /\ consumer = "fit"
    /\ fit_steps < MaxFitSteps
    /\ fit_steps' = fit_steps + 1
    /\ layer_updates' = train_on_layers(layers, layer_updates)
    /\ passes' = passes \cup
           {[call |-> "train",
             learning_phase |-> dictionary.keras_learning_phase]}
    /\ dictionary' = NoDictionary
    /\ UNCHANGED <<labels, prediction_phase_flag, consumer>>
    /\ UNCHANGED <<trainVars, netVars, asgVars, splitVars>>

\* evaluate_generator takes the yielded dictionary: the loss alone.
EvaluateOnBatch ==
    /\ dictionary # NoDictionary
    /\ consumer = "evaluate"
    /\ passes' = passes \cup
           {[call |-> "evaluate",
             learning_phase |-> dictionary.keras_learning_phase]}
    /\ dictionary' = NoDictionary
    /\ UNCHANGED <<labels, prediction_phase_flag, consumer, layer_updates,
                   fit_steps>>
    /\ UNCHANGED <<trainVars, netVars, asgVars, splitVars>>

(* --------------------------- specifications ---------------------------- *)

Init == TrainInit /\ NetIdle /\ AsgIdle /\ FitIdle /\ SplitIdle

Next ==
    \/ \E le \in EpochOrNone, dir \in {None, "dir"}, asg \in BOOLEAN :
          Construct(le, dir, asg)
    \/ Loss
    \/ \E cs \in 1 .. MaxCadence, ss \in 1 .. MaxCadence : Train(cs, ss)
    \/ TrainStep
    \/ EpochEnd
    \/ Exit

\* Runs of train and loss on one checkpoint directory.
Spec == Init /\ [][Next]_vars

InitNet ==
    /\ NoProcess /\ runs = 0 /\ files = EmptyDirectory
    /\ NetInit /\ AsgIdle /\ FitIdle /\ SplitIdle

NextNet ==
    \/ Assemble
    \/ AssembleAgain

\* Batch assembly on the nets create_predictive_net builds.
SpecNet == InitNet /\ [][NextNet]_vars

InitFit ==
    /\ NoProcess /\ runs = 0 /\ files = EmptyDirectory
    /\ FitInit /\ AsgIdle /\ SplitIdle

NextFit ==
    \/ Predict
    \/ \E who \in {"fit", "evaluate"} : Generate(who)
    \/ TrainOnBatch
    \/ EvaluateOnBatch

\* The generator, the optimizer and the forward passes on the nets
\* create_predictive_net builds.
SpecFit == InitFit /\ [][NextFit]_vars

InitAsg ==
    /\ NoProcess /\ runs = 0 /\ files = EmptyDirectory
    /\ NetIdle /\ AsgInit /\ FitIdle /\ SplitIdle

NextAsg == \E draw \in Draws(asg_size) : DefaultTransitionProbabilities(draw)

\* The default ASG transition probabilities of the constructor.
SpecAsg == InitAsg /\ [][NextAsg]_vars

InitSplit ==
    /\ NoProcess /\ runs = 0 /\ files = EmptyDirectory
    /\ NetIdle /\ AsgIdle /\ FitIdle /\ SplitInit

NextSplit ==
    \/ SplitTrainingOnly
    \/ SplitTestOnly
    \/ SplitByDirectory

\* The training/test splits of TrainingTestSplit on lists of examples.
SpecSplit == InitSplit /\ [][NextSplit]_vars

(* ------------------- checkpoints and resuming (C1 - C6) ---------------- *)

\* C1: a checkpoint file is written at most once: no epoch-end save of a
\* run targets a file name that the run loaded at startup or has already
\* saved.
C1_CheckpointWrittenOnce == ~clobbered

\* C2, as stated: at the end of every epoch whose number is a multiple of
\* save_step, the file model_file_name(epoch) holds a snapshot of the
\* weights.
C2_SavedAtEveryMultiple ==
    (last_end.epoch # NoEpoch /\ last_end.epoch % save_step = 0)
        => /\ Exists(files, model_file_name(last_end.epoch))
           /\ files[model_file_name(last_end.epoch)] = last_end.weights

\* C2, amended: at the end of every epoch whose number N > 0 is a multiple
\* of save_step, the file model_file_name(N) = "weights-epoch<N>.h5" holds a
\* snapshot of the weights; distinct epoch numbers give distinct file names.
C2_SavedAtEveryPositiveMultiple ==
    /\ (last_end.epoch > 0 /\ last_end.epoch % save_step = 0)
        => /\ Exists(files, model_file_name(last_end.epoch))
           /\ files[model_file_name(last_end.epoch)] = last_end.weights
    /\ model_file_name(MaxNamedEpoch) =
           "weights-epoch" \o Decimal(MaxNamedEpoch) \o ".h5"
    /\ \A a, b \in 0 .. MaxNamedEpoch :
           a # b => model_file_name(a) # model_file_name(b)

C2_Witness ==
    /\ pc = "training"
    /\ save_step = 2
    /\ last_end.epoch = 2
    /\ Exists(files, "weights-epoch2.h5")
    /\ ~Exists(files, "weights-epoch1.h5")

\* C3: with a resume epoch and a directory, the weights of checkpoint
\* weights-epoch<load_epoch> are in the net before the first training step
\* and the first epoch trained is numbered load_epoch; without a resume
\* epoch the first epoch is numbered 0.
C3_ResumeLoadsThenNumbersFromLoadEpoch ==
    /\ (/\ pc \in {"constructed", "training"}
        /\ load_epoch # NoEpoch
        /\ load_dir # None
        /\ steps_run = 0)
        => /\ loaded_name = model_file_name(load_epoch)
           /\ weights = files[model_file_name(load_epoch)]
    /\ first_epoch # NoEpoch
        => first_epoch = (IF load_epoch # NoEpoch THEN load_epoch ELSE 0)

C3_Witness ==
    /\ load_dir = "dir"
    /\ load_epoch = 1
    /\ loaded_name = "weights-epoch1.h5"
    /\ first_epoch = 1
    /\ steps_run = 1

\* C4: a resume whose checkpoint file does not exist fails in the
\* constructor and never trains, and no run trains with resumed epoch
\* numbering on weights that were not loaded.
C4_NoResumedNumberingOnRandomWeights ==
    /\ load_missing => (pc = "failed" /\ steps_run = 0)
    /\ (steps_run > 0 /\ load_epoch # NoEpoch) => loaded_name # None

\* The weights of a run that starts at epoch 0 and is never interrupted,
\* at the end of epoch n.
UninterruptedWeights(n) ==
    [steps |-> (n + 1) * StepsPerEpoch, aligned |-> TRUE]

\* C5: a run resumed from checkpoint N predicts, before its first training
\* step, what the uninterrupted run predicts at the end of epoch N.
C5_ResumeEqualsUninterrupted ==
    (/\ pc = "constructed"
     /\ loaded_name # None
     /\ weights.aligned)
        => predict(weights) = predict(UninterruptedWeights(load_epoch))

\* C6: with use_asg, every request for a loss fails with
\* NotImplementedError; no loss is computed, CTC is not substituted and no
\* optimizer update is applied.
C6_AsgLossAlwaysFails ==
    (use_asg /\ pc # "idle")
        => /\ loss_kind = "none"
           /\ steps_run = 0
           /\ weights = load_weights(files, load_dir, load_epoch).weights
           /\ loss_requested
                => (pc = "failed" /\ error = "NotImplementedError")

C6_Witness ==
    /\ use_asg
    /\ loss_requested
    /\ report # << >>
    /\ pc = "failed"
    /\ error = "NotImplementedError"

(* ------------------- ASG transition probabilities (C7) ----------------- *)

\* The float64 sum of column j of a matrix of float64, its rows added one
\* after the other from row 0 on.
ColumnFloatSum(matrix, j) ==
    LET partial[i \in 0 .. asg_size] ==
            IF i = 0 THEN matrix[0][j]
            ELSE FloatAdd(partial[i - 1], matrix[i][j])
    IN partial[asg_size]

\* The bits of v, a number below 2 ^ 30, in a sequence of k bits.
Binary(v, k) ==
    [i \in 1 .. k |-> IF k - i >= 30 THEN 0 ELSE (v \div 2 ^ (k - i)) % 2]

\* The float64 that are 1 + u * 2 ^ -Precision for an integer u of
\* -k .. k: below 1 they are 2 ^ -Precision apart, above 1 twice that.
NearOne(k) ==
    {[e |-> 0, m |-> <<1>> \o Binary(u, Precision - 1)] : u \in 0 .. k \div 2}
    \cup {[e |-> 0 - 1,
           m |-> [i \in 1 .. Precision |-> 1 - Binary(u - 1, Precision)[i]]] :
             u \in 1 .. k}

AsgMade == asg_draw # << >>

ZeroRowAndColumn ==
    \A i \in 0 .. asg_size :
        /\ asg_transition[0][i] = FloatZero
        /\ asg_transition[i][0] = FloatZero

\* C7, as stated: row 0 and column 0 of the default ASG transition matrix
\* are exactly zero, and every column j >= 1 sums to exactly 1.
C7_ColumnsSumToExactlyOne ==
    AsgMade
        => /\ ZeroRowAndColumn
           /\ \A j \in 1 .. asg_size :
                  ColumnFloatSum(asg_transition, j) = FloatOne

\* C7, amended: row 0 and column 0 of the default ASG transition matrix
\* are exactly zero, and every column j >= 1 sums to 1 up to float64
\* rounding: its sum is within n * 2 ^ -53 of 1, for n graphemes.
C7_ColumnsSumToOneWithinRounding ==
    AsgMade
        => /\ ZeroRowAndColumn
           /\ \A j \in 1 .. asg_size :
                  ColumnFloatSum(asg_transition, j) \in NearOne(asg_size)

C7_Witness ==
    /\ AsgMade
    /\ ZeroRowAndColumn
    /\ \E j \in 1 .. asg_size :
          /\ ColumnFloatSum(asg_transition, j) # FloatOne
          /\ ColumnFloatSum(asg_transition, j) \in NearOne(1)

(* ------------------ strides and batch assembly (C8 - C10) -------------- *)

\* The product of the strides of the convolutions among layers i .. Len(ls).
RECURSIVE StrideProduct(_, _)
StrideProduct(ls, i) ==
    IF i > Len(ls) THEN 1
    ELSE (IF ls[i].kind = "Convolution1D" THEN ls[i].subsample_length ELSE 1)
         * StrideProduct(ls, i + 1)

InputLengths == [i \in 1 .. Len(spectrograms) |-> spectrograms[i].shape[1]]

\* C8: input_to_prediction_length_ratio is the product of the strides of
\* the net's convolutions, with raw wave input or without, with dropout or
\* without, and the prediction lengths are the spectrogram lengths
\* integer-divided by it; strides [2,1,1,1,1,1,1,1,1,32,1,1] multiply to 64
\* and a length of 640 then gives 10.
C8_RatioIsProductOfStrides ==
    ratio_cache # 0
        => /\ ratio_cache = StrideProduct(layers, 1)
           /\ ratio_cache = (IF net_cfg.use_raw_wave_input THEN 160 * 2 ELSE 2)
           /\ \A i \in 1 .. Len(spectrograms) :
                  /\ prediction_lengths[i] * ratio_cache <= InputLengths[i]
                  /\ InputLengths[i] < (prediction_lengths[i] + 1) * ratio_cache
           /\ reduce_product(<<2, 1, 1, 1, 1, 1, 1, 1, 1, 32, 1, 1>>, 1) = 64
           /\ prediction_lengths_of(<<640>>, 64) = <<10>>

C8_Witness ==
    /\ ratio_cache = 320
    /\ net_cfg.dropout # None
    /\ Len(layers) > 11
    /\ InputLengths = <<321>>
    /\ prediction_lengths = <<1>>

\* C9: every expected output length handed on is at most the time
\* dimension of the net's output on the padded batch.
C9_PredictionLengthWithinOutput ==
    input_batch # << >>
        => \A i \in 1 .. Len(spectrograms) :
               prediction_lengths[i]
                   <= output_length(layers, Len(input_batch[1]))

C9_Witness ==
    /\ net_cfg.use_raw_wave_input
    /\ InputLengths = <<1, 320>>
    /\ prediction_lengths = <<0, 1>>
    /\ output_length(layers, Len(input_batch[1])) = 1

\* The tensor of C10: one row per spectrogram, as long as the longest, as
\* wide as the features; row i holds spectrogram i, then zeros.  The list
\* handed in is as the caller made it, and a second call on it returned what
\* the first did.
PaddedAndRepeatable ==
    /\ Len(input_batch) = Len(spectrograms)
    /\ \A i \in 1 .. Len(spectrograms) :
          /\ Len(input_batch[i]) = Max(InputLengths)
          /\ \A t \in 1 .. Max(InputLengths) :
                /\ Len(input_batch[i][t]) = InputSize
                /\ \A k \in 1 .. InputSize :
                      input_batch[i][t][k] =
                          (IF t <= InputLengths[i]
                           THEN spectrograms[i].data[t][k] ELSE 0)
          /\ spectrograms[i] = Spectrogram(InputLengths[i], InputSize, i)
    /\ previous # NoResult
          => /\ previous.input_batch = input_batch
             /\ previous.prediction_lengths = prediction_lengths

\* C10, as stated: the padded tensor comes with the true feature lengths,
\* not rescaled.
C10_ReturnsTrueLengths ==
    input_batch # << >>
        => /\ PaddedAndRepeatable
           /\ prediction_lengths = InputLengths

\* C10, amended: the padded tensor comes with the prediction lengths, each
\* true feature length integer-divided by the product of the strides.
C10_ReturnsPredictionLengths ==
    input_batch # << >>
        => /\ PaddedAndRepeatable
           /\ prediction_lengths =
                  [i \in 1 .. Len(spectrograms) |->
                      InputLengths[i] \div StrideProduct(layers, 1)]

C10_Witness ==
    /\ previous # NoResult
    /\ InputLengths = <<1, 3>>
    /\ input_batch[1][1][1] # 0
    /\ input_batch[1][2][1] = 0
    /\ input_batch[2][3][InputSize] # 0
    /\ prediction_lengths = <<0, 1>>

(* ------------- frozen layers, dropout and the phases (C11 - C14) ------- *)

\* The rank of layer i among the convolutions of ls: 1 for the first.
ConvRank(ls, i) ==
    Cardinality({k \in 1 .. i : ls[k].kind = "Convolution1D"})

\* C11: exactly the first frozen_layer_count convolutions are
\* non-trainable: after training steps their parameters are the initial (or
\* loaded) ones, and every later convolution is trainable and has taken
\* every optimizer update.
C11_FirstKConvolutionsFrozen ==
    fit_steps > 0
        => \A i \in 1 .. Len(layers) :
               layers[i].kind = "Convolution1D"
                   => IF ConvRank(layers, i) <= net_cfg.frozen_layer_count
                      THEN ~layers[i].trainable /\ layer_updates[i] = 0
                      ELSE layers[i].trainable
                               /\ layer_updates[i] = fit_steps

\* The names of the convolutions of the net, in their order.
ConvolutionNames ==
    (IF net_cfg.use_raw_wave_input THEN <<"wave_conv">> ELSE << >>)
    \o <<"striding_conv", "inner_conv_1", "inner_conv_2", "inner_conv_3",
         "inner_conv_4", "inner_conv_5", "inner_conv_6", "inner_conv_7",
         "big_conv_1", "big_conv_2", "output_conv">>

OutputStage == {"big_conv_1", "big_conv_2", "output_conv"}

\* The names of the convolutions among layers i .. Len(ls), in their order.
RECURSIVE NamesOfConvolutions(_, _)
NamesOfConvolutions(ls, i) ==
    IF i > Len(ls) THEN << >>
    ELSE (IF ls[i].kind = "Convolution1D" THEN <<ls[i].name>> ELSE << >>)
         \o NamesOfConvolutions(ls, i + 1)

\* C12: with a dropout rate, a Dropout layer sits immediately before each of
\* wave_conv (if present), striding_conv and inner_conv_1..7 and before none
\* of big_conv_1, big_conv_2 and output_conv; without a dropout rate the
\* layer sequence holds no Dropout layer.
C12_DropoutBeforeAllButOutputStage ==
    layers # << >>
        => /\ NamesOfConvolutions(layers, 1) = ConvolutionNames
           /\ \A i \in 1 .. Len(layers) :
                /\ layers[i].kind = "Convolution1D"
                     => ((i > 1 /\ layers[i - 1].kind = "Dropout")
                            <=> (net_cfg.dropout # None
                                   /\ layers[i].name \notin OutputStage))
                /\ layers[i].kind = "Dropout"
                     => /\ net_cfg.dropout # None
                        /\ layers[i].p = net_cfg.dropout
                        /\ i < Len(layers)
                        /\ layers[i + 1].kind = "Convolution1D"

C12_Witness ==
    /\ net_cfg.dropout # None
    /\ net_cfg.use_raw_wave_input
    /\ Len(layers) = 21
    /\ layers[1].kind = "Dropout" /\ layers[2].name = "wave_conv"
    /\ layers[17].kind = "Dropout" /\ layers[18].name = "inner_conv_7"
    /\ layers[19].name = "big_conv_1"
    /\ layers[20].name = "big_conv_2"
    /\ layers[21].name = "output_conv"
    /\ input_batch # << >>

\* C13, as stated: every forward pass of predict feeds the prediction phase
\* flag, and the training phase flag is only on inputs built for a training
\* step.
C13_TrainingPhaseOnlyForTrainingSteps ==
    /\ \A pass \in passes :
         /\ pass.call = "predict" => pass.learning_phase = 0
         /\ pass.learning_phase = TrainingPhase => pass.call = "train"
    /\ dictionary # NoDictionary /\ dictionary.keras_learning_phase = TrainingPhase
           => consumer = "fit"

\* C13, amended: every forward pass of predict feeds the prediction phase
\* flag, and the training phase flag is only on the inputs that
\* _training_input_dictionary builds for the generator, which a training
\* step or a loss evaluation takes.
C13_TrainingPhaseOnlyForGeneratedInputs ==
    /\ \A pass \in passes :
         /\ pass.call = "predict" => pass.learning_phase = 0
         /\ pass.learning_phase = TrainingPhase
                => pass.call \in {"train", "evaluate"}
         /\ pass.call \in {"train", "evaluate"}
                => pass.learning_phase = TrainingPhase
    /\ dictionary # NoDictionary
           => /\ dictionary.keras_learning_phase = TrainingPhase
              /\ consumer \in {"fit", "evaluate"}

C13_Witness ==
    /\ [call |-> "predict", learning_phase |-> 0] \in passes
    /\ [call |-> "train", learning_phase |-> TrainingPhase] \in passes
    /\ [call |-> "evaluate", learning_phase |-> TrainingPhase] \in passes
    /\ fit_steps = MaxFitSteps

\* Example i of the batch has a label longer than its prediction length.
LabelTooLong(i) ==
    Len(labels[i]) > spectrograms[i].shape[1] \div StrideProduct(layers, 1)

\* C14: a batch with a label longer than its prediction length makes the
\* assembly of the training inputs fail: no dictionary is built from it,
\* and no optimizer step or loss evaluation takes it.
C14_TooLongLabelNeverHandedOn ==
    (\E i \in 1 .. Len(labels) : LabelTooLong(i))
        => /\ dictionary = NoDictionary
           /\ fit_steps = 0
           /\ \A pass \in passes : pass.call = "predict"

\* Positions of this run's events that are reports or saves.
ReportsAndSaves == {i \in 1 .. Len(events) : events[i].kind # "step"}

\* C15: train emits the report once before the first training step; after
\* it, reports and saves happen only at epoch ends, never between two
\* training steps of one epoch; at an epoch end where both are due the
\* report comes before the save.
C15_ReportFirstThenOnlyAtEpochEnds ==
    /\ pc = "training" => Len(events) > 0
    /\ Len(events) > 0 => events[1] = Event("report", NoEpoch, 0)
    /\ \A i \in ReportsAndSaves :
         i > 1 => /\ \E j \in 1 .. i - 1 : events[j].kind = "step"
                  /\ events[i].batch = StepsPerEpoch
    /\ \A i, j, k \in 1 .. Len(events) :
         (/\ i < j /\ j < k
          /\ events[i].kind = "step" /\ events[k].kind = "step"
          /\ events[i].epoch = events[k].epoch)
             => events[j].kind = "step"
    /\ \A i \in ReportsAndSaves :
         (events[i].kind = "save"
          /\ CallbackDue(events[i].epoch, callback_step))
             => /\ i > 1
                /\ events[i - 1] = Event("report", events[i].epoch,
                                         events[i].batch)
    /\ \A i, j \in ReportsAndSaves :
         (/\ i < j
          /\ events[i].kind = "save" /\ events[j].kind = "report")
             => events[j].epoch > events[i].epoch

C15_Witness ==
    /\ pc = "training"
    /\ \E i \in 2 .. Len(events) - 2 :
         /\ events[i - 1].kind = "step"
         /\ events[i].kind = "report"
         /\ events[i + 1] = Event("save", events[i].epoch, StepsPerEpoch)
         /\ events[i + 2].kind = "step"
         /\ events[i + 2].epoch = events[i].epoch + 1

\* The examples of a list that lie in a directory with the given name, and
\* the others, in the list's order.
ExamplesIn(es, tdn) ==
    LET Named(example) == name(example.audio_directory) = tdn
    IN SelectSeq(es, Named)

ExamplesNotIn(es, tdn) ==
    LET NotNamed(example) == name(example.audio_directory) # tdn
    IN SelectSeq(es, NotNamed)

\* C16: by_directory(test_directory_name) returns (training_examples,
\* test_examples), a partition of the list in the list's order, where
\* test_examples are exactly the examples whose audio directory is named
\* test_directory_name and training_examples are all the others.
C16_TestExamplesAreTheNamedDirectory ==
    split_result.by = "by_directory"
        => /\ split_result.test_examples
                  = ExamplesIn(examples, test_directory_name)
           /\ split_result.training_examples
                  = ExamplesNotIn(examples, test_directory_name)

====
